---- MODULE Spec2Model ----
(***************************************************************************)
(* Model of the memorial installation (src/main.js and the verse overlay   *)
(* in src/unnamed/part_000).                                               *)
(*                                                                         *)
(* The specifications share the variables:                                 *)
(*   Spec      - one Hydra controller driven through its public API        *)
(*               (startScheduler, runPreset) and by its rotation timer;    *)
(*   AppSpec   - the whole page: tryAutostart, the start button, startApp, *)
(*               the timers startApp installs;                             *)
(*   VerseSpec - the draw callback of the verse overlay against the clock; *)
(*   VerseLongSpec, VerseLiveSpec - the same over many cycles, and for     *)
(*               ever;                                                     *)
(*   AudioSpec - one AudioInput and the gain helper, called from outside;  *)
(*   BandSpec  - one update on frequency buffers of every length;          *)
(*   WrapSpec  - one call of wrapLines;                                    *)
(*   WriterSpec - every operation that reads or writes the features.       *)
(***************************************************************************)
EXTENDS Integers, Sequences, FiniteSets

(***************************************************************************)
(* Bounds of the model.                                                    *)
(***************************************************************************)
MaxStarts == 2          \* startApp invocations that may exist
MaxFirings == 10        \* rotation timer firings after one startScheduler (Spec)
MaxAppTicks == 3        \* timer callbacks run in AppSpec
MaxFrames == 9          \* draw callbacks run in VerseSpec
ArgSpan == 17           \* runPreset is called with arguments in -ArgSpan..ArgSpan
MaxLongFrames == 20     \* draw callbacks run in VerseLongSpec
MaxBins == 24           \* longest frequency buffer in BandSpec
MaxStr == 6             \* longest string handed to wrapLines in WrapSpec
MaxWriterOps == 6       \* operations run in WriterSpec
MaxUpdates == 5         \* update calls made in AudioSpec

(***************************************************************************)
(* Program constants.                                                      *)
(***************************************************************************)
presetCount == 8        \* presets.length
hydraPresetMs == 22000  \* CONFIG.hydraPresetMs

Inst == 1..MaxStarts
\* periods a caller hands to startScheduler
Periods == {hydraPresetMs, hydraPresetMs \div 2}
RunArgs == (0 - ArgSpan)..ArgSpan
NoArg == 0 - 1000       \* "runPreset was not called yet"
NoPreset == 0 - 1       \* presets[idx] is undefined: nothing is invoked

VARIABLES
    idx,            \* idx[a]: the controller's cursor (let idx)
    presetTimer,    \* presetTimer[a]: 0 for null, else the id setInterval returned
    intervals,      \* the active setInterval timers of the page
    hydra,          \* hydra[a]: createHydraController has returned for a
    firings,        \* rotation timer firings of a since its last startScheduler
    sinceStart,     \* no runPreset call from outside since that startScheduler
    lastArg,        \* argument of a's last runPreset
    lastInvoked,    \* index of the preset function that call invoked
    lastThrew,      \* that call threw
    prevThrew,      \* the runPreset call of a before that one threw
    lastOp,         \* who made it: "start", "run" (API) or "tick" (timer)
    lastMs,         \* period given to a's last startScheduler
    ticks,          \* timer callbacks run (AppSpec)
    pc,             \* pc[a]: position of the a-th startApp call
    origin,         \* who called it: "auto" (tryAutostart) or "click"
    micOk,          \* its local micOk
    analyser,       \* its AudioInput has an analyser (audio.start returned)
    feat,           \* its AudioInput's level, bass, mid, treble (fixed point)
    p5Instance,     \* its overlay has created the p5 sketch
    alerted,        \* the click handler that called it raised the alert
    uiShown,        \* the #ui element is displayed
    autoPc,         \* position of tryAutostart
    now,            \* p.millis() at the overlay's last callback
    totalLen,       \* totalLen[i + 1]: length of buildFullText(verses[i])
    verseIndex,     \* let verseIndex
    current,        \* let current, as the position of that verse in verses
    startMs,        \* let startMs
    revealDoneMs,   \* let revealDoneMs (0: not latched)
    fadeStartMs,    \* let fadeStartMs
    cycleDoneMs,    \* let cycleDoneMs
    frames,         \* draw callbacks run
    drawnVerse,     \* index of the verse whose text the last frame drew
    drawnChars,     \* number of its characters drawn
    alphaNum,       \* alpha of the last frame, times fadeMs
    cycles,         \* nextVerse calls made by draw
    updates,        \* AudioInput.update calls made from outside the timers
    timeBuf,        \* the time-domain buffer (dataTime) of the last such call
    freqBuf,        \* its frequency buffer (dataFreq)
    sameRuns,       \* how many calls in a row were given these two buffers
    rawFeat,        \* nextLevel and the three band averages it computed
    gainArg,        \* <<x, k>> of the last gain(x, k) call, k in tenths
    gainOut,        \* what it returned (fixed point)
    str,            \* the string handed to wrapLines
    maxWidth,       \* its maxWidth
    wrapped,        \* wrapLines has returned
    lines           \* the lines it returned

ctlVars == <<idx, presetTimer, intervals, hydra, firings, sinceStart,
             lastArg, lastInvoked, lastThrew, prevThrew, lastOp, lastMs>>

(***************************************************************************)
(* JavaScript's % truncates toward zero: the result has the sign of the    *)
(* dividend.                                                               *)
(***************************************************************************)
JsRem(x, n) == IF x >= 0 THEN x % n ELSE 0 - ((0 - x) % n)

\* the floor modulus, for stating claims
FloorMod(x, n) == x % n

\* a slip: the index is not wrapped
NormIdx_NoWrap(i) == i

\* idx = (i + presets.length) % presets.length
NormIdx(i) == JsRem(i + presetCount, presetCount)

\* presets[j] is a function
IsPreset(j) == j \in 0..(presetCount - 1)

\* the id setInterval hands out: one no active timer has
NewId(S) == CHOOSE n \in 1..(Cardinality(S) + 1) : \A t \in S : t.id # n

PresetTimersOf(a) == {t \in intervals : t.owner = a /\ t.kind = "preset"}

(***************************************************************************)
(* runPreset(i).  idx is assigned first; then the clear pass; then         *)
(* presets[idx]() which throws when the render pass faults (throws) or     *)
(* when presets[idx] is undefined (TypeError).                             *)
(***************************************************************************)
RunThrows(i, throws) == throws \/ ~IsPreset(NormIdx(i))

\* a slip: idx is assigned only once the preset has returned
runPreset_IdxAfterInvoke(a, i, throws) ==
    /\ idx' = [idx EXCEPT ![a] = IF RunThrows(i, throws) THEN @ ELSE NormIdx(i)]
    /\ lastArg' = [lastArg EXCEPT ![a] = i]
    /\ lastInvoked' = [lastInvoked EXCEPT ![a] =
                          IF IsPreset(NormIdx(i)) THEN NormIdx(i) ELSE NoPreset]
    /\ lastThrew' = [lastThrew EXCEPT ![a] = RunThrows(i, throws)]
    /\ prevThrew' = [prevThrew EXCEPT ![a] = lastThrew[a]]

runPreset(a, i, throws) ==
    /\ idx' = [idx EXCEPT ![a] = NormIdx(i)]
    /\ lastArg' = [lastArg EXCEPT ![a] = i]
    /\ lastInvoked' = [lastInvoked EXCEPT ![a] =
                          IF IsPreset(NormIdx(i)) THEN NormIdx(i) ELSE NoPreset]
    /\ lastThrew' = [lastThrew EXCEPT ![a] = RunThrows(i, throws)]
    /\ prevThrew' = [prevThrew EXCEPT ![a] = lastThrew[a]]

(***************************************************************************)
(* startScheduler(ms): runPreset(0); if it returns, clearInterval of the   *)
(* old timer and setInterval of the new one.  A throw of runPreset(0)      *)
(* leaves the function before either.                                      *)
(***************************************************************************)
IntervalsAfterStart(a, ms, throws) ==
    IF RunThrows(0, throws)
    THEN intervals
    ELSE LET kept == {t \in intervals : t.id # presetTimer[a]}
         IN kept \cup {[id |-> NewId(kept), owner |-> a,
                        kind |-> "preset", ms |-> ms]}

TimerAfterStart(a, throws) ==
    IF RunThrows(0, throws)
    THEN presetTimer[a]
    ELSE NewId({t \in intervals : t.id # presetTimer[a]})

\* everything startScheduler does but the new value of intervals, which is
\* IntervalsAfterStart (startApp goes on to add its own timers)
startScheduler(a, ms, throws) ==
    /\ runPreset(a, 0, throws)
    /\ lastOp' = [lastOp EXCEPT ![a] = "start"]
    /\ lastMs' = [lastMs EXCEPT ![a] = ms]
    /\ firings' = [firings EXCEPT ![a] = 0]
    /\ sinceStart' = [sinceStart EXCEPT ![a] = TRUE]
    /\ presetTimer' = [presetTimer EXCEPT ![a] = TimerAfterStart(a, throws)]

(***************************************************************************)
(* The callback of the rotation timer: () => runPreset(idx + 1).  A throw  *)
(* of the callback leaves the interval installed.                          *)
(***************************************************************************)
RotationTick(t, throws) ==
    /\ t \in intervals /\ t.kind = "preset"
    /\ runPreset(t.owner, idx[t.owner] + 1, throws)
    /\ lastOp' = [lastOp EXCEPT ![t.owner] = "tick"]
    /\ firings' = [firings EXCEPT ![t.owner] = @ + 1]
    /\ UNCHANGED <<presetTimer, intervals, hydra, sinceStart, lastMs>>

(***************************************************************************)
(* Calls of the controller's API from outside.                             *)
(***************************************************************************)
CallStartScheduler(a, ms, throws) ==
    /\ hydra[a]
    /\ startScheduler(a, ms, throws)
    /\ intervals' = IntervalsAfterStart(a, ms, throws)
    /\ UNCHANGED hydra

CallRunPreset(a, i, throws) ==
    /\ hydra[a]
    /\ runPreset(a, i, throws)
    /\ lastOp' = [lastOp EXCEPT ![a] = "run"]
    /\ sinceStart' = [sinceStart EXCEPT ![a] = FALSE]
    /\ UNCHANGED <<presetTimer, intervals, hydra, firings, lastMs>>

appVars == <<pc, origin, micOk, analyser, feat, p5Instance, alerted,
             uiShown, autoPc>>

verseVars == <<now, totalLen, verseIndex, current, startMs, revealDoneMs,
               fadeStartMs, cycleDoneMs, frames, drawnVerse, drawnChars,
               alphaNum, cycles>>

\* arguments and results of the calls made on one object from outside
callVars == <<updates, timeBuf, freqBuf, sameRuns, rawFeat, gainArg,
              gainOut, str, maxWidth, wrapped, lines>>

vars == <<idx, presetTimer, intervals, hydra, firings, sinceStart,
          lastArg, lastInvoked, lastThrew, prevThrew, lastOp, lastMs, ticks,
          pc, origin, micOk, analyser, feat, p5Instance, alerted,
          uiShown, autoPc,
          now, totalLen, verseIndex, current, startMs, revealDoneMs,
          fadeStartMs, cycleDoneMs, frames, drawnVerse, drawnChars, alphaNum,
          cycles,
          updates, timeBuf, freqBuf, sameRuns, rawFeat, gainArg, gainOut,
          str, maxWidth, wrapped, lines>>

(***************************************************************************)
(* AudioInput.  Feature values are fixed-point numbers, FixedOne standing  *)
(* for 1.0; divisions round down.  A buffer is a sequence of bytes, its    *)
(* element i (from 0) being buf[i + 1].                                    *)
(***************************************************************************)
FixedOne == 1000
SmoothPct == 85         \* this._smooth = 0.85, in percent

Min(x, y) == IF x <= y THEN x ELSE y
Max(x, y) == IF x >= y THEN x ELSE y

\* a slip: only the lower end is clamped
clamp01_NoCeiling(num, den) == Max(0, num)

\* clamp01 of num / den, as a numerator over den (the overlay and
\* createHydraController each define it, the same way)
clamp01(num, den) == Max(0, Min(den, num))

RECURSIVE ISqrtIn(_, _, _)
\* the largest r in lo..hi with r * r <= x
ISqrtIn(x, lo, hi) ==
    IF lo >= hi THEN lo
    ELSE LET m == (lo + hi + 1) \div 2
         IN IF m * m <= x THEN ISqrtIn(x, m, hi) ELSE ISqrtIn(x, lo, m - 1)

\* Math.sqrt, rounded down
ISqrt(x) == ISqrtIn(x, 0, 2 * FixedOne + 1)

RECURSIVE SumSq(_, _)
\* sum over the first k samples of (dataTime[i] - 128)^2
SumSq(buf, k) ==
    IF k = 0 THEN 0
    ELSE SumSq(buf, k - 1) + (buf[k] - 128) * (buf[k] - 128)

\* a slip: the level is not capped at 1
NextLevel_NoMin(buf) ==
    ISqrt((SumSq(buf, Len(buf)) * 15625) \div (64 * Len(buf)))

\* nextLevel = min(1, 2 * sqrt(sum / length)), sum of ((x - 128) / 128)^2:
\* (2 * FixedOne)^2 / 128^2 = 15625 / 64
NextLevel(buf) ==
    Min(FixedOne, ISqrt((SumSq(buf, Len(buf)) * 15625) \div (64 * Len(buf))))

RECURSIVE SumRange(_, _, _)
\* s of avg: the sum of dataFreq[i] for from <= i < to
SumRange(buf, from, to) ==
    IF from >= to THEN 0
    ELSE buf[from + 1] + SumRange(buf, from + 1, to)

avg(buf, from, to) ==
    (SumRange(buf, from, to) * FixedOne) \div (Max(1, to - from) * 255)

\* a slip: the band edge is rounded, not floored
BandB1_Round(n) == (n * 15 + 50) \div 100

BandB1(n) == (n * 15) \div 100      \* Math.floor(n * 0.15)
BandM1(n) == (n * 55) \div 100      \* Math.floor(n * 0.55)

\* a slip: the old value is not scaled down
Ema_NoDecay(old, raw) == (old * 100 + raw * (100 - SmoothPct)) \div 100

\* this.x = this.x * k + next * (1 - k), k = this._smooth
Ema(old, raw) == (old * SmoothPct + raw * (100 - SmoothPct)) \div 100

ZeroFeat == [level |-> 0, bass |-> 0, mid |-> 0, treble |-> 0]

FeatNames == {"level", "bass", "mid", "treble"}

\* nextLevel, nextBass, nextMid and nextTreble of update()
RawOf(dataTime, dataFreq) ==
    LET n == Len(dataFreq)
    IN [level  |-> NextLevel(dataTime),
        bass   |-> avg(dataFreq, 0, BandB1(n)),
        mid    |-> avg(dataFreq, BandB1(n), BandM1(n)),
        treble |-> avg(dataFreq, BandM1(n), n)]

\* a slip: update does not test that the analyser exists
update_NoGuard(f, hasAnalyser, dataTime, dataFreq) ==
    [x \in FeatNames |-> Ema(f[x], RawOf(dataTime, dataFreq)[x])]

\* the AudioInput's features after update() on the given buffers
update(f, hasAnalyser, dataTime, dataFreq) ==
    IF ~hasAnalyser THEN f
    ELSE [x \in FeatNames |-> Ema(f[x], RawOf(dataTime, dataFreq)[x])]

\* buffers the analyser hands to update() in AppSpec
TimeBufs == { <<128, 128, 128, 128>>, <<0, 255, 0, 255>>, <<96, 160, 128, 128>> }
FreqBufs == { <<0, 0, 0, 0, 0, 0, 0>>, <<255, 255, 255, 255, 255, 255, 255>>,
              <<200, 90, 40, 30, 10, 0, 0>> }

\* what the analyser hears in AudioSpec: silence, a full-scale square wave
\* with every bin full, and a voice
Sounds == { << <<128, 128, 128, 128>>, <<0, 0, 0, 0, 0, 0, 0>> >>,
            << <<0, 255, 0, 255>>, <<255, 255, 255, 255, 255, 255, 255>> >>,
            << <<96, 160, 128, 128>>, <<200, 90, 40, 30, 10, 0, 0>> >> }

\* frequency buffers of n bins: every bin full, and only bin j full (none
\* when j >= n)
Flat(n) == [i \in 1..n |-> 255]
Impulse(n, j) == [i \in 1..n |-> IF i = j + 1 THEN 255 ELSE 0]
\* what the analyser holds in BandSpec
FreqInputs == {Flat(n) : n \in 0..MaxBins}
                 \cup {Impulse(n, j) : n \in 1..MaxBins, j \in 0..(MaxBins - 1)}

\* audio.update() called on the a-th AudioInput, the analyser holding
\* dataTime and dataFreq
CallUpdate(a, dataTime, dataFreq) ==
    /\ feat' = [feat EXCEPT ![a] = update(@, analyser[a], dataTime, dataFreq)]
    /\ updates' = updates + 1
    /\ IF analyser[a]
       THEN /\ timeBuf' = dataTime
            /\ freqBuf' = dataFreq
            /\ sameRuns' = IF dataTime = timeBuf /\ dataFreq = freqBuf
                           THEN sameRuns + 1 ELSE 1
            /\ rawFeat' = RawOf(dataTime, dataFreq)
       ELSE UNCHANGED <<timeBuf, freqBuf, sameRuns, rawFeat>>
    /\ UNCHANGED <<pc, origin, micOk, analyser, p5Instance, alerted, uiShown,
                   autoPc>>
    /\ UNCHANGED <<gainArg, gainOut, str, maxWidth, wrapped, lines>>

\* audio.start() of the a-th AudioInput has created the analyser
CallStart(a) ==
    /\ ~analyser[a]
    /\ analyser' = [analyser EXCEPT ![a] = TRUE]
    /\ UNCHANGED <<pc, origin, micOk, feat, p5Instance, alerted, uiShown,
                   autoPc>>
    /\ UNCHANGED callVars

\* the gain constants of AL, BA, MI and TR, in tenths
GainTenths == {32, 20, 25, 30}
\* feature values no AudioInput produces
OffScale == {0 - 500, 1500}

\* gain = (x, k) => clamp01(x * k), k in tenths
gain(x, k) == clamp01((x * k) \div 10, FixedOne)

CallGain(x, k) ==
    /\ gainArg' = <<x, k>>
    /\ gainOut' = gain(x, k)
    /\ UNCHANGED <<updates, timeBuf, freqBuf, sameRuns, rawFeat, str,
                   maxWidth, wrapped, lines>>
    /\ UNCHANGED appVars

(***************************************************************************)
(* startApp.  It runs to its await of audio.start(), and when the          *)
(* microphone promise settles it runs to its end in one piece.             *)
(***************************************************************************)
FreeSlot(a) == pc[a] = "none" /\ \A b \in Inst : b < a => pc[b] # "none"

startAppBegin(a, org) ==
    /\ FreeSlot(a)
    /\ pc' = [pc EXCEPT ![a] = "awaitMic"]
    /\ origin' = [origin EXCEPT ![a] = org]

\* the timers startApp installs when micOk: audio.update and the log line
AudioTimers(S, a) ==
    LET id1 == NewId(S)
        S1 == S \cup {[id |-> id1, owner |-> a, kind |-> "audio", ms |-> 41]}
    IN S1 \cup {[id |-> NewId(S1), owner |-> a, kind |-> "log", ms |-> 1000]}

\* the rest of startApp once audio.start() has settled (ok: resolved);
\* throws: the preset startScheduler runs first throws
startAppResume(a, ok, throws) ==
    /\ pc[a] = "awaitMic"
    /\ micOk' = [micOk EXCEPT ![a] = ok]
    /\ analyser' = [analyser EXCEPT ![a] = ok]
    /\ hydra' = [hydra EXCEPT ![a] = TRUE]
    /\ startScheduler(a, hydraPresetMs, throws)
    /\ IF RunThrows(0, throws)
       THEN \* startScheduler throws: startApp rejects
            /\ pc' = [pc EXCEPT ![a] = "failed"]
            /\ intervals' = IntervalsAfterStart(a, hydraPresetMs, throws)
            /\ UNCHANGED p5Instance
            /\ uiShown' = TRUE          \* showUI() of either caller
            /\ alerted' = [alerted EXCEPT ![a] = (origin[a] = "click")]
       ELSE /\ pc' = [pc EXCEPT ![a] = "done"]
            /\ p5Instance' = [p5Instance EXCEPT ![a] = TRUE]
            /\ intervals' =
                  IF ok THEN AudioTimers(IntervalsAfterStart(a, hydraPresetMs, throws), a)
                  ELSE IntervalsAfterStart(a, hydraPresetMs, throws)
            /\ uiShown' = FALSE         \* hideUI()
            /\ UNCHANGED alerted
    /\ autoPc' = IF origin[a] = "auto" THEN "done" ELSE autoPc
    /\ UNCHANGED <<origin, feat>>

(***************************************************************************)
(* tryAutostart and its .then: without the permissions API, with a state   *)
(* other than "granted" or with a failing query it returns false and the   *)
(* UI is shown; with "granted" it awaits startApp.                         *)
(***************************************************************************)
PermissionOutcomes == {"noapi", "granted", "prompt", "denied", "error"}

tryAutostart(outcome) ==
    /\ autoPc = "start"
    /\ IF outcome = "granted"
       THEN /\ startAppBegin(1, "auto")
            /\ autoPc' = "awaitApp"
            /\ UNCHANGED uiShown
       ELSE /\ autoPc' = "done"
            /\ uiShown' = TRUE
            /\ UNCHANGED <<pc, origin>>
    /\ UNCHANGED <<micOk, analyser, feat, p5Instance, alerted>>

\* the click listener of #startBtn, up to startApp's await
startBtnClick(a) ==
    /\ uiShown
    /\ startAppBegin(a, "click")
    /\ UNCHANGED <<micOk, analyser, feat, p5Instance, alerted, uiShown, autoPc>>

\* setInterval(() => audio.update(), frameMs)
AudioTick(t, dataTime, dataFreq) ==
    /\ t \in intervals /\ t.kind = "audio"
    /\ feat' = [feat EXCEPT ![t.owner] =
                   update(@, analyser[t.owner], dataTime, dataFreq)]
    /\ UNCHANGED <<pc, origin, micOk, analyser, p5Instance, alerted, uiShown, autoPc>>

\* the logging interval only reads the features
LogTick(t) ==
    /\ t \in intervals /\ t.kind = "log"
    /\ UNCHANGED appVars

(***************************************************************************)
(* The verse overlay.  Times are whole milliseconds.  alpha is kept as     *)
(* alphaNum / fadeMs, which is exact.                                      *)
(***************************************************************************)
msPerChar == 28         \* CONFIG.verse.msPerChar
holdMs == 9000          \* CONFIG.verse.holdMs
fadeMs == 1000          \* CONFIG.verse.fadeMs
gapMs == 600            \* CONFIG.verse.gapMs
verseCount == 8         \* verses.length

\* buildFullText(v).length of the eight verses of the table
VerseLens == <<77, 166, 199, 98, 117, 143, 112, 262>>
\* the table of the timing scenario: every composed verse has 50 characters
ScenarioLens == [i \in 1..verseCount |-> 50]

\* p.millis() when setup runs, and the time between two draw callbacks
SetupTimes == {0, 17}
Deltas == {42, 600, 1000, 1400, 9000}
\* the same for a page that is drawn rarely (a throttled background tab)
LongDeltas == {1400, 9000, 12000}
\* the same for the overlay that runs for ever
LiveDeltas == {600, 1400, 9000}

\* Math.floor((now - startMs) / verseConfig.msPerChar)
charsVisible(t) == (t - startMs) \div msPerChar

\* full.length, full being buildFullText(current)
totalChars == totalLen[current + 1]

\* a slip: the latch does not test that it is still open
Latches_Always(t) == charsVisible(t) >= totalChars

\* the first if of p.draw: latch the three timestamps
Latches(t) == charsVisible(t) >= totalChars /\ revealDoneMs = 0

RevealAt(t) == IF Latches(t) THEN t ELSE revealDoneMs
FadeAt(t) == IF Latches(t) THEN RevealAt(t) + holdMs ELSE fadeStartMs
\* a slip: the gap is left out of the cycle
CycleAt_NoGap(t) == IF Latches(t) THEN FadeAt(t) + fadeMs ELSE cycleDoneMs

CycleAt(t) == IF Latches(t) THEN FadeAt(t) + fadeMs + gapMs ELSE cycleDoneMs

\* the alpha envelope of the frame drawn at t
AlphaAt(t) ==
    IF FadeAt(t) # 0 /\ t >= FadeAt(t)
    THEN fadeMs - clamp01(t - FadeAt(t), fadeMs)
    ELSE fadeMs

\* the third if of p.draw
Advances(t) == CycleAt(t) # 0 /\ t >= CycleAt(t)

(***************************************************************************)
(* wrapLines.  A string is a sequence of characters; "i" is a narrow       *)
(* letter, "m" a wide one.  p.textWidth, the width-measuring service, adds *)
(* up the widths of the characters.                                        *)
(***************************************************************************)
Chars == {"i", "m", " ", "\n"}
Strings == UNION {[1..k -> Chars] : k \in 0..MaxStr}
WrapWidths == {1, 2, 3}

CharWidth(c) == IF c = "m" THEN 2 ELSE 1

RECURSIVE textWidth(_)
textWidth(s) == IF s = <<>> THEN 0 ELSE CharWidth(Head(s)) + textWidth(Tail(s))

\* the first position of s that holds c, Len(s) + 1 if none does
IndexOf(s, c) ==
    IF \E i \in 1..Len(s) : s[i] = c
    THEN CHOOSE i \in 1..Len(s) : s[i] = c /\ \A j \in 1..(i - 1) : s[j] # c
    ELSE Len(s) + 1

RECURSIVE SplitLines(_)
\* str.split("\n")
SplitLines(s) ==
    LET k == IndexOf(s, "\n")
    IN IF k > Len(s) THEN <<s>>
       ELSE <<SubSeq(s, 1, k - 1)>> \o SplitLines(SubSeq(s, k + 1, Len(s)))

\* para.trim() === "" (a paragraph holds no line break)
IsBlank(para) == \A i \in 1..Len(para) : para[i] = " "

RECURSIVE SkipSpaces(_)
SkipSpaces(s) ==
    IF s # <<>> /\ Head(s) = " " THEN SkipSpaces(Tail(s)) ELSE s

RECURSIVE SplitWords(_)
\* para.split(/\s+/): a leading or trailing run of spaces gives an empty word
SplitWords(s) ==
    LET k == IndexOf(s, " ")
    IN IF k > Len(s) THEN <<s>>
       ELSE <<SubSeq(s, 1, k - 1)>>
                \o SplitWords(SkipSpaces(SubSeq(s, k, Len(s))))

\* a slip: the line that is full is not pushed
WrapWord_DropsLine(st, w, maxW) ==
    LET test == IF st.line # <<>> THEN st.line \o <<" ">> \o w ELSE w
    IN IF textWidth(test) <= maxW
       THEN [lines |-> st.lines, line |-> test]
       ELSE [lines |-> st.lines, line |-> w]

\* the body of the loop over the words: st holds lines and line
WrapWord(st, w, maxW) ==
    LET test == IF st.line # <<>> THEN st.line \o <<" ">> \o w ELSE w
    IN IF textWidth(test) <= maxW
       THEN [lines |-> st.lines, line |-> test]
       ELSE [lines |-> IF st.line # <<>> THEN Append(st.lines, st.line)
                       ELSE st.lines,
             line |-> w]

RECURSIVE WrapWords(_, _, _)
WrapWords(st, words, maxW) ==
    IF words = <<>> THEN st
    ELSE WrapWords(WrapWord(st, Head(words), maxW), Tail(words), maxW)

\* the body of the loop over the paragraphs
WrapPara(ls, para, maxW) ==
    IF IsBlank(para) THEN Append(ls, <<>>)
    ELSE LET st == WrapWords([lines |-> ls, line |-> <<>>],
                             SplitWords(para), maxW)
         IN IF st.line # <<>> THEN Append(st.lines, st.line) ELSE st.lines

RECURSIVE WrapParas(_, _, _)
WrapParas(ls, paras, maxW) ==
    IF paras = <<>> THEN ls
    ELSE WrapParas(WrapPara(ls, Head(paras), maxW), Tail(paras), maxW)

wrapLines(s, maxW) == WrapParas(<<>>, SplitLines(s), maxW)

\* wrapLines(p, str, maxWidth) is called
CallWrapLines ==
    /\ ~wrapped
    /\ lines' = wrapLines(str, maxWidth)
    /\ wrapped' = TRUE
    /\ UNCHANGED <<str, maxWidth>>
    /\ UNCHANGED <<updates, timeBuf, freqBuf, sameRuns, rawFeat, gainArg,
                   gainOut>>

\* a slip: current is taken before the index is moved
nextVerse_StaleCurrent(nowMs) ==
    /\ verseIndex' = (verseIndex + 1) % verseCount
    /\ current' = verseIndex
    /\ cycles' = cycles + 1
    /\ startMs' = nowMs
    /\ revealDoneMs' = 0
    /\ fadeStartMs' = 0
    /\ cycleDoneMs' = 0

\* a slip: the start of the phase is not reset
nextVerse_KeepsStart(nowMs) ==
    /\ verseIndex' = (verseIndex + 1) % verseCount
    /\ current' = verseIndex'
    /\ cycles' = cycles + 1
    /\ startMs' = startMs
    /\ revealDoneMs' = 0
    /\ fadeStartMs' = 0
    /\ cycleDoneMs' = 0

\* a slip: the index is not moved
nextVerse_SameVerse(nowMs) ==
    /\ verseIndex' = verseIndex
    /\ current' = verseIndex'
    /\ cycles' = cycles + 1
    /\ startMs' = nowMs
    /\ revealDoneMs' = 0
    /\ fadeStartMs' = 0
    /\ cycleDoneMs' = 0

\* a slip: the end of the cycle is not cleared
nextVerse_StaleDone(nowMs) ==
    /\ verseIndex' = (verseIndex + 1) % verseCount
    /\ current' = verseIndex'
    /\ cycles' = cycles + 1
    /\ startMs' = nowMs
    /\ revealDoneMs' = 0
    /\ fadeStartMs' = 0
    /\ cycleDoneMs' = cycleDoneMs

nextVerse(nowMs) ==
    /\ verseIndex' = (verseIndex + 1) % verseCount
    /\ current' = verseIndex'
    /\ cycles' = cycles + 1
    /\ startMs' = nowMs       \* (accent, a random palette entry, times nothing)
    /\ revealDoneMs' = 0
    /\ fadeStartMs' = 0
    /\ cycleDoneMs' = 0

\* a slip: alpha is computed after nextVerse has cleared the timestamps
draw_AlphaAfterAdvance(d) ==
    LET t == now + d
    IN /\ now' = t
       /\ IF Advances(t)
          THEN nextVerse(t)
          ELSE /\ revealDoneMs' = RevealAt(t)
               /\ fadeStartMs' = FadeAt(t)
               /\ cycleDoneMs' = CycleAt(t)
               /\ UNCHANGED <<verseIndex, current, cycles, startMs>>
       /\ drawnVerse' = current
       /\ drawnChars' = Min(totalChars, charsVisible(t))
       /\ alphaNum' = IF Advances(t) THEN fadeMs ELSE AlphaAt(t)
       /\ frames' = frames + 1
       /\ UNCHANGED totalLen

\* p.draw, called d milliseconds after the previous callback
draw(d) ==
    LET t == now + d
    IN /\ now' = t
       /\ IF Advances(t)
          THEN nextVerse(t)
          ELSE /\ revealDoneMs' = RevealAt(t)
               /\ fadeStartMs' = FadeAt(t)
               /\ cycleDoneMs' = CycleAt(t)
               /\ UNCHANGED <<verseIndex, current, cycles, startMs>>
       \* full and charsVisible were computed before nextVerse
       /\ drawnVerse' = current
       /\ drawnChars' = Min(totalChars, charsVisible(t))
       /\ alphaNum' = AlphaAt(t)
       /\ frames' = frames + 1
       /\ UNCHANGED totalLen

(***************************************************************************)
(* Spec: one controller, just returned by createHydraController.           *)
(***************************************************************************)
AppVarsInit ==
    /\ pc = [a \in Inst |-> "none"]
    /\ origin = [a \in Inst |-> "none"]
    /\ micOk = [a \in Inst |-> FALSE]
    /\ analyser = [a \in Inst |-> FALSE]
    /\ feat = [a \in Inst |-> ZeroFeat]
    /\ p5Instance = [a \in Inst |-> FALSE]
    /\ alerted = [a \in Inst |-> FALSE]
    /\ uiShown = FALSE
    /\ autoPc = "start"

CtlVarsInit ==
    /\ idx = [a \in Inst |-> 0]
    /\ presetTimer = [a \in Inst |-> 0]
    /\ intervals = {}
    /\ firings = [a \in Inst |-> 0]
    /\ sinceStart = [a \in Inst |-> FALSE]
    /\ lastArg = [a \in Inst |-> NoArg]
    /\ lastInvoked = [a \in Inst |-> NoPreset]
    /\ lastThrew = [a \in Inst |-> FALSE]
    /\ prevThrew = [a \in Inst |-> FALSE]
    /\ lastOp = [a \in Inst |-> "none"]
    /\ lastMs = [a \in Inst |-> 0]
    /\ ticks = 0

\* the overlay once p.setup has run at time t0 on the verse table lens
VerseVarsInit(t0, lens) ==
    /\ now = t0
    /\ totalLen = lens
    /\ verseIndex = 0
    /\ current = 0
    /\ cycles = 0
    /\ startMs = t0
    /\ revealDoneMs = 0
    /\ fadeStartMs = 0
    /\ cycleDoneMs = 0
    /\ frames = 0
    /\ drawnVerse = 0
    /\ drawnChars = 0
    /\ alphaNum = fadeMs

\* no call has been made yet
CallVarsInit ==
    /\ updates = 0
    /\ timeBuf = <<>>
    /\ freqBuf = <<>>
    /\ sameRuns = 0
    /\ rawFeat = ZeroFeat
    /\ gainArg = <<0, 0>>
    /\ gainOut = 0
    /\ str = <<>>
    /\ maxWidth = 0
    /\ wrapped = FALSE
    /\ lines = <<>>

Init ==
    /\ CtlVarsInit
    /\ hydra = [a \in Inst |-> a = 1]
    /\ AppVarsInit
    /\ VerseVarsInit(0, VerseLens)
    /\ CallVarsInit

CtlStart == \E ms \in Periods, th \in BOOLEAN :
    /\ CallStartScheduler(1, ms, th)
    /\ UNCHANGED ticks /\ UNCHANGED appVars
    /\ UNCHANGED verseVars /\ UNCHANGED callVars

CtlRun == \E i \in RunArgs, th \in BOOLEAN :
    /\ CallRunPreset(1, i, th)
    /\ UNCHANGED ticks /\ UNCHANGED appVars
    /\ UNCHANGED verseVars /\ UNCHANGED callVars

CtlTick == \E t \in intervals, th \in BOOLEAN :
    /\ firings[t.owner] < MaxFirings
    /\ RotationTick(t, th)
    /\ UNCHANGED ticks /\ UNCHANGED appVars
    /\ UNCHANGED verseVars /\ UNCHANGED callVars

Next == CtlStart \/ CtlRun \/ CtlTick

Spec == Init /\ [][Next]_vars

(***************************************************************************)
(* AppSpec: the page after the module has been evaluated.  The markup is   *)
(* not part of the source; #ui is taken to be hidden until showUI().       *)
(***************************************************************************)
AppInit ==
    /\ CtlVarsInit
    /\ hydra = [a \in Inst |-> FALSE]
    /\ AppVarsInit
    /\ VerseVarsInit(0, VerseLens)
    /\ CallVarsInit

ctlGhost == <<firings, sinceStart, lastArg, lastInvoked, lastThrew, prevThrew,
              lastOp, lastMs>>

AppAutostart == \E o \in PermissionOutcomes :
    /\ tryAutostart(o)
    /\ UNCHANGED <<idx, presetTimer, intervals, hydra, ticks>>
    /\ UNCHANGED ctlGhost /\ UNCHANGED verseVars /\ UNCHANGED callVars

AppClick == \E a \in Inst :
    /\ startBtnClick(a)
    /\ UNCHANGED <<idx, presetTimer, intervals, hydra, ticks>>
    /\ UNCHANGED ctlGhost /\ UNCHANGED verseVars /\ UNCHANGED callVars

AppMicSettles == \E a \in Inst, ok \in BOOLEAN, th \in BOOLEAN :
    /\ startAppResume(a, ok, th)
    /\ UNCHANGED ticks /\ UNCHANGED verseVars /\ UNCHANGED callVars

AppRotationTick == \E t \in intervals, th \in BOOLEAN :
    /\ ticks < MaxAppTicks
    /\ RotationTick(t, th)
    /\ ticks' = ticks + 1
    /\ UNCHANGED appVars /\ UNCHANGED verseVars /\ UNCHANGED callVars

AppAudioTick == \E t \in intervals, tb \in TimeBufs, fb \in FreqBufs :
    /\ ticks < MaxAppTicks
    /\ AudioTick(t, tb, fb)
    /\ ticks' = ticks + 1
    /\ UNCHANGED ctlVars /\ UNCHANGED verseVars /\ UNCHANGED callVars

AppLogTick == \E t \in intervals :
    /\ ticks < MaxAppTicks
    /\ LogTick(t)
    /\ ticks' = ticks + 1
    /\ UNCHANGED ctlVars /\ UNCHANGED verseVars /\ UNCHANGED callVars

AppNext ==
    \/ AppAutostart \/ AppClick \/ AppMicSettles
    \/ AppRotationTick \/ AppAudioTick \/ AppLogTick

AppSpec == AppInit /\ [][AppNext]_vars

(***************************************************************************)
(* VerseSpec: one overlay whose sketch has been set up, drawing frames.    *)
(***************************************************************************)
VerseInit ==
    /\ CtlVarsInit
    /\ hydra = [a \in Inst |-> FALSE]
    /\ AppVarsInit
    /\ \E t0 \in SetupTimes, lens \in {VerseLens, ScenarioLens} :
          VerseVarsInit(t0, lens)
    /\ CallVarsInit

DrawFrame == \E d \in Deltas :
    /\ frames < MaxFrames
    /\ draw(d)
    /\ UNCHANGED ctlVars /\ UNCHANGED ticks /\ UNCHANGED appVars
    /\ UNCHANGED callVars

VerseNext == DrawFrame

VerseSpec == VerseInit /\ [][VerseNext]_vars

(***************************************************************************)
(* VerseLongSpec: the same overlay over many cycles, drawn at long         *)
(* intervals.                                                              *)
(***************************************************************************)
VerseLongInit ==
    /\ CtlVarsInit
    /\ hydra = [a \in Inst |-> FALSE]
    /\ AppVarsInit
    /\ VerseVarsInit(0, VerseLens)
    /\ CallVarsInit

LongDrawFrame == \E d \in LongDeltas :
    /\ frames < MaxLongFrames
    /\ draw(d)
    /\ UNCHANGED ctlVars /\ UNCHANGED ticks /\ UNCHANGED appVars
    /\ UNCHANGED callVars

VerseLongNext == LongDrawFrame

VerseLongSpec == VerseLongInit /\ [][VerseLongNext]_vars

(***************************************************************************)
(* VerseLiveSpec: the overlay running for ever.  draw compares now only    *)
(* with timestamps it took from now earlier in the same cycle, so the      *)
(* clock may be read from any origin: to keep the state space finite the   *)
(* origin is moved to the start of the cycle after every nextVerse, and    *)
(* the two counters are wound back with it.  The draw loop of p5 keeps     *)
(* calling draw: the specification is weakly fair for it.                  *)
(***************************************************************************)
VerseLiveInit == VerseLongInit

LiveDrawFrame == \E d \in LiveDeltas :
    /\ startMs = 0
    /\ draw(d)
    /\ UNCHANGED ctlVars /\ UNCHANGED ticks /\ UNCHANGED appVars
    /\ UNCHANGED callVars

\* p.millis() is read from the start of the cycle that has just begun
ClockRebase ==
    /\ startMs # 0 /\ now = startMs /\ revealDoneMs = 0
    /\ now' = 0
    /\ startMs' = 0
    /\ frames' = 0
    /\ cycles' = cycles % verseCount
    /\ UNCHANGED <<totalLen, verseIndex, current, revealDoneMs, fadeStartMs,
                   cycleDoneMs, drawnVerse, drawnChars, alphaNum>>
    /\ UNCHANGED ctlVars /\ UNCHANGED ticks /\ UNCHANGED appVars
    /\ UNCHANGED callVars

VerseLiveNext == LiveDrawFrame \/ ClockRebase

VerseLiveSpec ==
    /\ VerseLiveInit /\ [][VerseLiveNext]_vars
    /\ WF_vars(LiveDrawFrame) /\ WF_vars(ClockRebase)

(***************************************************************************)
(* AudioSpec: one AudioInput, just constructed, whose start and update are *)
(* called from outside, and the gain helper of the presets.                *)
(***************************************************************************)
AudioInit ==
    /\ CtlVarsInit
    /\ hydra = [a \in Inst |-> FALSE]
    /\ AppVarsInit
    /\ VerseVarsInit(0, VerseLens)
    /\ CallVarsInit

AudioStart ==
    /\ CallStart(1)
    /\ UNCHANGED ctlVars /\ UNCHANGED ticks /\ UNCHANGED verseVars

AudioUpdate == \E snd \in Sounds :
    /\ updates < MaxUpdates
    /\ CallUpdate(1, snd[1], snd[2])
    /\ UNCHANGED ctlVars /\ UNCHANGED ticks /\ UNCHANGED verseVars

AudioGain == \E x \in {feat[1][f] : f \in FeatNames} \cup OffScale,
                k \in GainTenths :
    /\ CallGain(x, k)
    /\ UNCHANGED ctlVars /\ UNCHANGED ticks /\ UNCHANGED verseVars

AudioNext == AudioStart \/ AudioUpdate \/ AudioGain

AudioSpec == AudioInit /\ [][AudioNext]_vars

(***************************************************************************)
(* BandSpec: update called once on an AudioInput whose analyser holds a    *)
(* frequency buffer of any length up to MaxBins, the room being silent.    *)
(***************************************************************************)
BandInit ==
    /\ CtlVarsInit
    /\ hydra = [a \in Inst |-> FALSE]
    /\ pc = [a \in Inst |-> "none"]
    /\ origin = [a \in Inst |-> "none"]
    /\ micOk = [a \in Inst |-> FALSE]
    /\ analyser = [a \in Inst |-> a = 1]
    /\ feat = [a \in Inst |-> ZeroFeat]
    /\ p5Instance = [a \in Inst |-> FALSE]
    /\ alerted = [a \in Inst |-> FALSE]
    /\ uiShown = FALSE
    /\ autoPc = "start"
    /\ VerseVarsInit(0, VerseLens)
    /\ updates = 0
    /\ timeBuf = <<128, 128, 128, 128>>
    /\ freqBuf \in FreqInputs
    /\ sameRuns = 0
    /\ rawFeat = ZeroFeat
    /\ gainArg = <<0, 0>>
    /\ gainOut = 0
    /\ str = <<>>
    /\ maxWidth = 0
    /\ wrapped = FALSE
    /\ lines = <<>>

BandUpdate ==
    /\ updates = 0
    /\ CallUpdate(1, timeBuf, freqBuf)
    /\ UNCHANGED ctlVars /\ UNCHANGED ticks /\ UNCHANGED verseVars

BandNext == BandUpdate

BandSpec == BandInit /\ [][BandNext]_vars

(***************************************************************************)
(* WrapSpec: wrapLines called once on a string of up to MaxStr characters. *)
(***************************************************************************)
WrapInit ==
    /\ CtlVarsInit
    /\ hydra = [a \in Inst |-> FALSE]
    /\ AppVarsInit
    /\ VerseVarsInit(0, VerseLens)
    /\ updates = 0
    /\ timeBuf = <<>>
    /\ freqBuf = <<>>
    /\ sameRuns = 0
    /\ rawFeat = ZeroFeat
    /\ gainArg = <<0, 0>>
    /\ gainOut = 0
    /\ str \in Strings
    /\ maxWidth \in WrapWidths
    /\ wrapped = FALSE
    /\ lines = <<>>

WrapCall ==
    /\ CallWrapLines
    /\ UNCHANGED ctlVars /\ UNCHANGED ticks /\ UNCHANGED appVars
    /\ UNCHANGED verseVars

WrapNext == WrapCall

WrapSpec == WrapInit /\ [][WrapNext]_vars

(***************************************************************************)
(* WriterSpec: the objects of one startApp call (its AudioInput, its       *)
(* controller, its overlay) with every operation that reads or writes the  *)
(* features: update and start of the AudioInput, runPreset, startScheduler *)
(* and the rotation timer of the controller, draw of the overlay.  ticks   *)
(* counts the operations.                                                  *)
(***************************************************************************)
WriterInit == Init

WriterStart ==
    /\ ticks < MaxWriterOps /\ ticks' = ticks + 1
    /\ CallStart(1)
    /\ UNCHANGED ctlVars /\ UNCHANGED verseVars

WriterUpdate == \E snd \in Sounds :
    /\ ticks < MaxWriterOps /\ ticks' = ticks + 1
    /\ CallUpdate(1, snd[1], snd[2])
    /\ UNCHANGED ctlVars /\ UNCHANGED verseVars

WriterScheduler == \E ms \in Periods :
    /\ ticks < MaxWriterOps /\ ticks' = ticks + 1
    /\ CallStartScheduler(1, ms, FALSE)
    /\ UNCHANGED appVars /\ UNCHANGED verseVars /\ UNCHANGED callVars

WriterRun == \E th \in BOOLEAN :
    /\ ticks < MaxWriterOps /\ ticks' = ticks + 1
    /\ CallRunPreset(1, 3, th)
    /\ UNCHANGED appVars /\ UNCHANGED verseVars /\ UNCHANGED callVars

WriterTick == \E t \in intervals, th \in BOOLEAN :
    /\ ticks < MaxWriterOps /\ ticks' = ticks + 1
    /\ RotationTick(t, th)
    /\ UNCHANGED appVars /\ UNCHANGED verseVars /\ UNCHANGED callVars

WriterDraw == \E d \in {42, 9000} :
    /\ ticks < MaxWriterOps /\ ticks' = ticks + 1
    /\ draw(d)
    /\ UNCHANGED ctlVars /\ UNCHANGED appVars /\ UNCHANGED callVars

WriterNext ==
    \/ WriterStart \/ WriterUpdate \/ WriterScheduler
    \/ WriterRun \/ WriterTick \/ WriterDraw

WriterSpec == WriterInit /\ [][WriterNext]_vars

(***************************************************************************)
(* Claims about the preset scheduler (Spec).                               *)
(***************************************************************************)

\* a step in which the rotation timer of a fired
Fired(a) == firings'[a] = firings[a] + 1

\* C1: after startScheduler and k firings of the rotation timer, with no
\* other runPreset in between, the index is k mod presetCount, and each
\* firing moves the index to its cyclic successor.
C1_IndexIsFiringsModCount ==
    /\ [](\A a \in Inst : sinceStart[a] => idx[a] = firings[a] % presetCount)
    /\ [][\A a \in Inst : (sinceStart[a] /\ Fired(a)) =>
             idx'[a] = (idx[a] + 1) % presetCount]_vars

\* the index has gone round once: nine firings after a start
C1_Witness ==
    sinceStart[1] /\ firings[1] = presetCount + 1 /\ idx[1] = 1

\* C2 (as claimed): after runPreset(i), for every integer i, the index is
\* the floor modulus of i and the preset at that index was invoked.
C2_FloorModEveryInteger ==
    \A a \in Inst : lastArg[a] # NoArg =>
        /\ idx[a] = FloorMod(lastArg[a], presetCount)
        /\ lastInvoked[a] = idx[a]

\* C3: a firing of the rotation timer whose preset throws leaves the timer
\* installed, and the next firing invokes the cyclic successor of the
\* preset that failed.
C3_ThrowingTickIsolated ==
    /\ [](\A a \in Inst : (lastOp[a] = "tick" /\ lastThrew[a]) =>
             \E t \in PresetTimersOf(a) : t.id = presetTimer[a])
    /\ [][\A a \in Inst :
             /\ (Fired(a) /\ lastThrew'[a]) => intervals' = intervals
             /\ (lastOp[a] = "tick" /\ lastThrew[a] /\ Fired(a)) =>
                   /\ lastInvoked'[a] = (lastInvoked[a] + 1) % presetCount
                   /\ idx'[a] = lastInvoked'[a]]_vars

\* the firing after a throwing firing has run, and did not throw
C3_Witness ==
    /\ sinceStart[1] /\ firings[1] = 3 /\ lastOp[1] = "tick"
    /\ prevThrew[1] /\ ~lastThrew[1]
    /\ idx[1] = 3 /\ PresetTimersOf(1) # {}

\* C5 (as claimed): each startScheduler call leaves the index at 0 and
\* exactly one rotation timer of the controller, the one with the period
\* just given; at no time has a controller two rotation timers.
C5_StartLeavesOneTimer ==
    \A a \in Inst :
        /\ Cardinality(PresetTimersOf(a)) <= 1
        /\ lastOp[a] = "start" =>
              /\ idx[a] = 0
              /\ Cardinality(PresetTimersOf(a)) = 1
              /\ \A t \in PresetTimersOf(a) :
                    t.id = presetTimer[a] /\ t.ms = lastMs[a]

(***************************************************************************)
(* Claims about the page (AppSpec).                                        *)
(***************************************************************************)
Settled(a) == pc[a] \in {"done", "failed"}
TimersOf(a, k) == {t \in intervals : t.owner = a /\ t.kind = k}

\* C4 (as claimed): when the preset run by startScheduler at start-up
\* throws, the rotation timer is scheduled all the same, the overlay is
\* started and nothing is reported to the user.
C4_StartupFaultRecovered ==
    \A a \in Inst :
        (Settled(a) /\ lastOp[a] = "start" /\ lastThrew[a]) =>
            /\ PresetTimersOf(a) # {}
            /\ p5Instance[a]
            /\ ~alerted[a]

\* C6 (as claimed): the page never has more than one audio-sampling
\* timer, one rotation timer and one overlay sketch.
C6_OneTimerOfEachKind ==
    /\ Cardinality({t \in intervals : t.kind = "audio"}) <= 1
    /\ Cardinality({t \in intervals : t.kind = "preset"}) <= 1
    /\ Cardinality({a \in Inst : p5Instance[a]}) <= 1

\* C7 (as claimed): when the microphone promise rejects, startApp does not
\* fail, no audio timer exists, the features stay 0, and the scheduler and
\* the overlay are started.
C7_MicFailureDegrades ==
    \A a \in Inst :
        (Settled(a) /\ ~micOk[a]) =>
            /\ pc[a] = "done"
            /\ TimersOf(a, "audio") = {}
            /\ feat[a] = ZeroFeat
            /\ PresetTimersOf(a) # {}
            /\ p5Instance[a]

\* C8 (as claimed): a manual start raises the message exactly when the
\* microphone promise rejected.
C8_AlertIffMicRejected ==
    \A a \in Inst :
        (Settled(a) /\ origin[a] = "click") => (alerted[a] <=> ~micOk[a])

(***************************************************************************)
(* Claims about the verse overlay (VerseSpec).                             *)
(***************************************************************************)
LatchStep == revealDoneMs = 0 /\ revealDoneMs' # 0
FirstZeroAlphaStep == alphaNum # 0 /\ alphaNum' = 0
AdvanceStep == startMs' # startMs

\* C9 (as claimed): with a composed verse of 50 characters, whatever the
\* times of the frames, reveal is latched at start+1400, the fade starts at
\* start+10400, alpha is first 0 at start+11400 and the next verse begins
\* at start+12000.
C9_ScenarioInstants ==
    [][totalChars = 50 =>
          /\ LatchStep => /\ revealDoneMs' = startMs + 1400
                          /\ fadeStartMs' = startMs + 10400
          /\ FirstZeroAlphaStep => now' = startMs + 11400
          /\ AdvanceStep => startMs' = startMs + 12000]_vars

\* C9 (amended): each of the four instants is the time of the first frame
\* at or after it: reveal is latched at the first frame with
\* now >= start+1400, the fade starts 9000 later, alpha is first 0 at the
\* first frame with now >= fadeStartTime+1000, and the next verse begins at
\* the first frame with now >= fadeStartTime+1600.
C9_ScenarioInstantsAtFrames ==
    [][totalChars = 50 =>
          /\ LatchStep => /\ revealDoneMs' = now'
                          /\ now < startMs + 1400 /\ startMs + 1400 <= now'
                          /\ fadeStartMs' = revealDoneMs' + 9000
                          /\ cycleDoneMs' = fadeStartMs' + 1600
          /\ FirstZeroAlphaStep => /\ fadeStartMs # 0
                                   /\ now < fadeStartMs + 1000
                                   /\ fadeStartMs + 1000 <= now'
          /\ (fadeStartMs # 0 /\ fadeStartMs + 1000 <= now') => alphaNum' = 0
          /\ AdvanceStep => /\ startMs' = now'
                            /\ cycleDoneMs = fadeStartMs + 1600
                            /\ now < cycleDoneMs /\ cycleDoneMs <= now'
                            /\ startMs + 12000 <= now'
          /\ (cycleDoneMs # 0 /\ cycleDoneMs <= now') => AdvanceStep]_vars

\* the second 50-character verse has begun, later than start+12000, with
\* the frame that advanced drawing the outgoing verse at alpha 0
C9_Witness ==
    /\ totalLen = ScenarioLens /\ verseIndex = 1 /\ startMs > 12017
    /\ now = startMs /\ drawnVerse = 0 /\ alphaNum = 0

\* C10: the three timestamps are latched at the first frame with
\* charsVisible >= totalChars, to now, now + holdMs and
\* now + holdMs + fadeMs + gapMs, and no later frame of the cycle changes
\* them.
C10_LatchedOncePerCycle ==
    /\ [](revealDoneMs = 0 => (fadeStartMs = 0 /\ cycleDoneMs = 0 /\
             (frames = 0 \/ charsVisible(now) < totalChars)))
    /\ [][/\ LatchStep => /\ revealDoneMs' = now'
                          /\ charsVisible(now') >= totalChars
                          /\ fadeStartMs' = revealDoneMs' + holdMs
                          /\ cycleDoneMs' = fadeStartMs' + fadeMs + gapMs
          /\ (revealDoneMs # 0 /\ ~AdvanceStep) =>
                UNCHANGED <<revealDoneMs, fadeStartMs, cycleDoneMs>>]_vars

\* three frames of one cycle have been drawn after the one that latched
C10_Witness ==
    /\ revealDoneMs # 0 /\ now >= revealDoneMs + 3 * 42
    /\ fadeStartMs = revealDoneMs + holdMs
    /\ cycleDoneMs = revealDoneMs + holdMs + fadeMs + gapMs
    /\ now < cycleDoneMs

\* a step that is one draw callback
FrameStep == frames' = frames + 1

\* C11: the alpha of every frame is 1 while now < fadeStartTime (and on every
\* frame before the reveal is latched), 0 once now >= fadeStartTime + fadeMs
\* and 1 - (now - fadeStartTime) / fadeMs in between; it lies in [0, 1] and,
\* from one frame of a cycle to the next, never grows.
C11_AlphaEnvelope ==
    /\ [](0 <= alphaNum /\ alphaNum <= fadeMs)
    /\ [][FrameStep =>
            \* the fade start the frame used: nextVerse clears it afterwards
            LET fs == IF AdvanceStep THEN fadeStartMs ELSE fadeStartMs'
            IN /\ (fs = 0 \/ now' < fs) => alphaNum' = fadeMs
               /\ (fs # 0 /\ now' >= fs + fadeMs) => alphaNum' = 0
               /\ (fs # 0 /\ fs <= now' /\ now' < fs + fadeMs) =>
                      alphaNum' = fadeMs - (now' - fs)
               /\ (now # startMs) => alphaNum' <= alphaNum]_vars

\* a frame drawn 42 ms into the fade has alpha 0.958
C11_Witness ==
    /\ fadeStartMs # 0 /\ now = fadeStartMs + 42
    /\ alphaNum = fadeMs - 42

\* C12: the frame that is the first with now >= cycleCompleteTime moves the
\* verse index to (index + 1) mod verseCount, once, sets phaseStartTime to
\* its now and clears the three latched timestamps; no other frame changes
\* the index, so after n completed cycles the active verse is
\* n mod verseCount.
C12_AdvanceOncePerCycle ==
    /\ [](verseIndex = cycles % verseCount)
    /\ [][FrameStep =>
            IF cycleDoneMs # 0 /\ now' >= cycleDoneMs
            THEN /\ now < cycleDoneMs
                 /\ verseIndex' = (verseIndex + 1) % verseCount
                 /\ cycles' = cycles + 1
                 /\ startMs' = now'
                 /\ revealDoneMs' = 0 /\ fadeStartMs' = 0 /\ cycleDoneMs' = 0
            ELSE verseIndex' = verseIndex /\ cycles' = cycles]_vars

\* nine cycles have completed: the second verse is active again
C12_Witness ==
    cycles = verseCount + 1 /\ verseIndex = 1 /\ now = startMs

\* the phase the timestamps and now stand for: 0 Revealing, 1 Holding,
\* 2 Fading, 3 Gap
PhaseRank ==
    IF revealDoneMs = 0 THEN 0
    ELSE IF now < fadeStartMs THEN 1
    ELSE IF now < fadeStartMs + fadeMs THEN 2
    ELSE 3

\* C13: the overlay never comes to rest: while frames keep being drawn at
\* strictly later times every cycle completes, so every verse is followed
\* by the next one and is active again and again; and from one frame to
\* the next the phase only moves forward through Revealing, Holding,
\* Fading, Gap and then Revealing of the next verse.
C13_CyclesKeepCompleting ==
    /\ \A i \in 0..(verseCount - 1) :
          /\ (verseIndex = i) ~> (verseIndex = (i + 1) % verseCount)
          /\ []<>(verseIndex = i /\ PhaseRank = 0)
    /\ [][FrameStep =>
            IF verseIndex' # verseIndex \/ cycles' # cycles
            THEN /\ verseIndex' = (verseIndex + 1) % verseCount
                 /\ PhaseRank # 0 /\ PhaseRank' = 0
            ELSE PhaseRank' >= PhaseRank]_vars

\* the collection has gone round: the eighth cycle has just completed in
\* a frame that found the overlay in the gap
C13_Witness ==
    /\ cycles = verseCount /\ verseIndex = 0 /\ now = startMs
    /\ drawnVerse = verseCount - 1 /\ alphaNum = 0

\* C16: one verse is active: 0 <= verseIndex < verseCount and current is
\* verses[verseIndex]; the three latched timestamps are all set or all
\* cleared, and once set
\* phaseStartTime <= revealCompleteTime <= fadeStartTime <= cycleCompleteTime.
C16_VerseStateInvariant ==
    /\ 0 <= verseIndex /\ verseIndex < verseCount
    /\ current = verseIndex
    /\ \/ revealDoneMs = 0 /\ fadeStartMs = 0 /\ cycleDoneMs = 0
       \/ /\ revealDoneMs # 0 /\ fadeStartMs # 0 /\ cycleDoneMs # 0
          /\ startMs <= revealDoneMs
          /\ revealDoneMs <= fadeStartMs
          /\ fadeStartMs <= cycleDoneMs

\* the second verse is active and latched, a frame falling on its fade start
C16_Witness ==
    /\ verseIndex = 1 /\ current = 1 /\ startMs > 0
    /\ revealDoneMs > startMs /\ now = fadeStartMs

\* a step in which draw called nextVerse
CycleStep == cycles' = cycles + 1

\* C17: from one frame of a cycle to the next charsVisible, the floor of
\* (now - phaseStartTime) / msPerChar, does not decrease, and it is 0 at
\* the reset of the cycle; the text drawn is the first
\* min(totalChars, charsVisible) characters, so it does not shrink within
\* a cycle.
C17_TypingNeverShrinks ==
    [][FrameStep =>
          /\ IF CycleStep
             THEN /\ charsVisible(now)' = 0
                  /\ drawnChars' = Min(totalLen[drawnVerse' + 1],
                                       (now' - startMs) \div msPerChar)
             ELSE /\ charsVisible(now)' >= charsVisible(now)
                  /\ charsVisible(now)' >= 0
                  /\ drawnChars' = Min(totalLen[drawnVerse' + 1],
                                       charsVisible(now)')
          \* the frame before was one of the same cycle
          /\ (now # startMs \/ frames = 0) =>
                (drawnVerse' = drawnVerse /\ drawnChars' >= drawnChars)]_vars

\* the second verse is being typed: part of it is drawn
C17_Witness ==
    /\ verseIndex = 1 /\ drawnVerse = 1 /\ revealDoneMs = 0
    /\ 1 < drawnChars /\ drawnChars < totalChars

\* C21: the frame that advances the verse still draws the text of the
\* outgoing verse, whole, with alpha 0; the incoming verse is first drawn by
\* the next frame, as the prefix counted from the new phaseStartTime, with
\* alpha 1; so the text of a verse that is no longer the active one is
\* never drawn with an alpha above 0.
C21_OutgoingTextInvisible ==
    /\ [](drawnVerse # verseIndex => alphaNum = 0)
    /\ [][FrameStep =>
            /\ CycleStep => /\ drawnVerse' = verseIndex
                            /\ drawnVerse' # verseIndex'
                            /\ drawnChars' = totalLen[verseIndex + 1]
                            /\ alphaNum' = 0
            \* the frame before advanced the verse
            /\ (cycles > 0 /\ now = startMs) =>
                  /\ ~CycleStep
                  /\ drawnVerse' = verseIndex
                  /\ drawnChars' = Min(totalChars, (now' - startMs) \div msPerChar)
                  /\ alphaNum' = fadeMs]_vars

\* the first verse of the table has just been replaced: the frame drew its
\* 77 characters with alpha 0
C21_Witness ==
    /\ totalLen = VerseLens /\ cycles = 1 /\ verseIndex = 1
    /\ now = startMs /\ drawnVerse = 0 /\ drawnChars = 77 /\ alphaNum = 0

(***************************************************************************)
(* Claims about the audio features (AudioSpec).                            *)
(***************************************************************************)

\* C14: after any sequence of update calls each of level, bass, mid and
\* treble lies in [0, 1], and gain(x, k) lies in [0, 1] for every x, also
\* outside [0, 1], and every gain constant k.
C14_FeaturesAndGainInUnitRange ==
    /\ \A a \in Inst, f \in FeatNames :
          0 <= feat[a][f] /\ feat[a][f] <= FixedOne
    /\ 0 <= gainOut /\ gainOut <= FixedOne

\* five full-scale updates have raised the level, and gain(1.5, 3.2) was
\* taken
C14_Witness ==
    /\ updates >= 5 /\ feat[1].level > FixedOne \div 2
    /\ gainArg = <<1500, 32>> /\ gainOut = FixedOne

\* a step that is one update call on a with the analyser in place
UpdateStep(a) == updates' = updates + 1 /\ analyser[a]

Dist(x, y) == IF x >= y THEN x - y ELSE y - x

\* C15: every update moves each feature toward its raw value by
\* new = 0.85 * old + 0.15 * raw: the feature does not cross the raw value
\* and its distance from it does not grow; the distance shrinks by the
\* factor 0.85, up to the rounding of the fixed-point values, so under
\* repeated identical input it falls until rounding stops it.
C15_SmoothingApproachesRaw ==
    [][UpdateStep(1) =>
          \A f \in FeatNames :
              LET old == feat[1][f]
                  new == feat'[1][f]
                  raw == rawFeat'[f]
              IN /\ 100 * new <= 85 * old + 15 * raw
                 /\ 85 * old + 15 * raw < 100 * new + 100
                 /\ old <= raw => (old <= new /\ new <= raw)
                 /\ old >= raw => (raw <= new /\ new <= old)
                 /\ Dist(new, raw) <= Dist(old, raw)
                 /\ 100 * Dist(new, raw) <= 85 * Dist(old, raw) + 99
                 /\ Dist(old, raw) >= 7 => Dist(new, raw) < Dist(old, raw)]_vars

\* the same full-scale buffers five times over: the level has climbed more
\* than half of the way and is still below its raw value
C15_Witness ==
    /\ sameRuns >= 5 /\ rawFeat.level = FixedOne
    /\ feat[1].level > FixedOne \div 2 /\ feat[1].level < rawFeat.level

RECURSIVE BinSum(_, _)
\* the sum of the bins of buf whose index (from 0) is in S
BinSum(buf, S) ==
    IF S = {} THEN 0
    ELSE LET i == CHOOSE j \in S : TRUE
         IN buf[i + 1] + BinSum(buf, S \ {i})

\* floor(n * pct / 100)
FloorPct(n, pct) == CHOOSE b \in 0..n : 100 * b <= pct * n /\ pct * n < 100 * (b + 1)

\* sum / max(1, width) / 255 over the bins from..to-1
BandValue(buf, from, to) ==
    (BinSum(buf, from..(to - 1)) * FixedOne)
        \div ((IF to - from >= 1 THEN to - from ELSE 1) * 255)

\* C18: for a frequency buffer of any length n the bands [0, floor(0.15n)),
\* [floor(0.15n), floor(0.55n)) and [floor(0.55n), n) follow one another and
\* hold every bin exactly once; the value of a band is the sum of its bins
\* / max(1, width) / 255, which is 0 for a band of width 0.
C18_BandsPartitionBins ==
    updates = 1 =>
        LET n == Len(freqBuf)
            b1 == FloorPct(n, 15)
            m1 == FloorPct(n, 55)
            bands == << 0..(b1 - 1), b1..(m1 - 1), m1..(n - 1) >>
        IN /\ 0 <= b1 /\ b1 <= m1 /\ m1 <= n
           /\ \A i \in 0..(n - 1) :
                 Cardinality({k \in 1..3 : i \in bands[k]}) = 1
           /\ rawFeat.bass = BandValue(freqBuf, 0, b1)
           /\ rawFeat.mid = BandValue(freqBuf, b1, m1)
           /\ rawFeat.treble = BandValue(freqBuf, m1, n)
           /\ b1 = 0 => rawFeat.bass = 0
           /\ m1 = b1 => rawFeat.mid = 0
           /\ m1 = n => rawFeat.treble = 0

\* twenty bins with only bin 3 full: the first bin of the mid band
C18_Witness ==
    /\ updates = 1 /\ freqBuf = Impulse(20, 3)
    /\ rawFeat.bass = 0 /\ rawFeat.mid = 125 /\ rawFeat.treble = 0

(***************************************************************************)
(* Claims about wrapLines (WrapSpec).                                      *)
(***************************************************************************)

RECURSIVE WordLen(_)
\* the length of the run of letters s begins with
WordLen(s) ==
    IF s = <<>> \/ Head(s) \in {" ", "\n"} THEN 0 ELSE 1 + WordLen(Tail(s))

RECURSIVE Runs(_)
\* the words of s: its maximal runs of letters, in order
Runs(s) ==
    IF s = <<>> THEN <<>>
    ELSE IF Head(s) \in {" ", "\n"} THEN Runs(Tail(s))
    ELSE <<SubSeq(s, 1, WordLen(s))>>
             \o Runs(SubSeq(s, WordLen(s) + 1, Len(s)))

RECURSIVE Marks(_)
\* the words of a sequence of lines, an empty word standing for each line
\* that holds no letter
Marks(ls) ==
    IF ls = <<>> THEN <<>>
    ELSE (IF Runs(Head(ls)) = <<>> THEN << <<>> >> ELSE Runs(Head(ls)))
             \o Marks(Tail(ls))

\* the words are those of the input, whole and in order, and the blank
\* lines of the input are the empty lines of the output
KeepsWordsAndBlankLines ==
    /\ Marks(lines) = Marks(SplitLines(str))
    /\ \A k \in 1..Len(lines) :
          /\ "\n" \notin {lines[k][i] : i \in 1..Len(lines[k])}
          /\ Runs(lines[k]) = <<>> => lines[k] = <<>>

\* C19 (as claimed): whatever the string and the maximum width, no line
\* wrapLines returns is wider than the maximum width, no word is split and
\* every blank line of the input is an empty line of the output.
C19_NoLineWiderThanMax ==
    wrapped =>
        /\ \A k \in 1..Len(lines) : textWidth(lines[k]) <= maxWidth
        /\ KeepsWordsAndBlankLines

\* C19 (amended): no word is split and every blank line of the input is an
\* empty line of the output; a line is wider than the maximum width only
\* when it is one word that is by itself wider than it.
C19_OnlyLongWordsOverflow ==
    wrapped =>
        /\ \A k \in 1..Len(lines) :
              \/ textWidth(lines[k]) <= maxWidth
              \/ " " \notin {lines[k][i] : i \in 1..Len(lines[k])}
        /\ KeepsWordsAndBlankLines

\* two paragraphs with a blank line between them, the first of them
\* wrapped into two lines
C19_Witness ==
    /\ wrapped /\ maxWidth = 2
    /\ str = <<"i", " ", "i", "\n", "\n", "i">>
    /\ lines = << <<"i">>, <<"i">>, <<>>, <<"i">> >>

(***************************************************************************)
(* Claim about the writers of the features (WriterSpec).                   *)
(***************************************************************************)

\* C20: level, bass, mid and treble have one writer: runPreset,
\* startScheduler, the rotation timer and the draw of the overlay leave them
\* as they are, and so does update while there is no analyser; a step that
\* changes them is an update with the analyser in place.
C20_OnlyUpdateWritesFeatures ==
    [][/\ feat' # feat => (updates' = updates + 1 /\ analyser[1])
       /\ (updates' = updates + 1 /\ ~analyser[1]) => feat' = feat
       /\ (FrameStep \/ ctlVars' # ctlVars \/ analyser' # analyser) =>
             feat' = feat]_vars

\* update was called before start and after it: only the second call
\* raised the level; the rotation timer has fired and a frame was drawn
C20_Witness ==
    /\ updates = 2 /\ sameRuns = 1 /\ analyser[1]
    /\ feat[1].level > 0 /\ feat[1].level < FixedOne \div 2
    /\ firings[1] = 1 /\ frames = 1

====
